---- MODULE Spec2Model ----
(***************************************************************************)
(* Bloomwatch (src/app.py): a Flask page that asks Earth Engine for NDVI   *)
(* and bloom rasters, composes a folium map and plots two time series.     *)
(*                                                                         *)
(* Strings are sequences of tokens.  A token is a character, or a run of   *)
(* letters holding neither a space nor an underscore ("South", "ndvi").    *)
(* The token "sup2" is the character U+00B2 (superscript two).             *)
(***************************************************************************)
EXTENDS Integers, Sequences, FiniteSets, TLC

VARIABLES
    pc,            \* position of module initialisation (lines 15-31, 297-300)
    env,           \* the EE_KEY_JSON environment variable
    keyFile,       \* content of the temporary key file, None before line 20
    eeReady,       \* TRUE once ee.Initialize has returned (line 25)
    all_countries, \* the country list of line 31, Nothing before it
    routes,        \* routes registered on the Flask app (line 299)
    request,       \* the form of the request being served, Nothing between requests
    response,      \* what index handed to render_template, or the error it raised
    calls,         \* the calls of the three builders index made for it: arguments, outcome
    charts         \* the files of static/charts written since the last response

vars == <<pc, env, keyFile, eeReady, all_countries, routes, request, response, calls, charts>>

\* None, for the values that are plain strings (the environment, the key file)
None == "None"

\* a value that may be None and is a sequence otherwise: <<>> is None, <<v>> is v
Nothing == <<>>
Some(v) == <<v>>

-----------------------------------------------------------------------------
(* Bounds *)

MaxYears == 2      \* submitted `year` fields per request
MaxBuckets == 3    \* 16-day buckets the remote collection holds for a year
MaxCalls == 2      \* direct calls of the chart generators observed in SpecCharts

-----------------------------------------------------------------------------
(* Strings *)

RECURSIVE Replace(_, _, _)
\* str.replace(old, new) for single-character old and new
Replace(s, old, new) ==
    IF s = <<>> THEN <<>>
    ELSE <<IF Head(s) = old THEN new ELSE Head(s)>> \o Replace(Tail(s), old, new)

DecimalChars == {"0", "2", "3"}
SuperscriptChars == {"sup2"}

\* str.isdigit(): non-empty and every character is a digit; Unicode digits
\* that are not decimals (superscripts) count as digits
IsDigit(s) == s # <<>> /\ \A i \in 1..Len(s) : s[i] \in DecimalChars \cup SuperscriptChars

\* what int(s) accepts among the strings that pass isdigit(): decimals only
IntParses(s) == s # <<>> /\ \A i \in 1..Len(s) : s[i] \in DecimalChars

DigitValue(c) == CASE c = "0" -> 0 [] c = "2" -> 2 [] c = "3" -> 3

RECURSIVE IntOf(_)
\* int(s) for a string of decimals
IntOf(s) == IF s = <<>> THEN 0 ELSE 10 * IntOf(SubSeq(s, 1, Len(s) - 1)) + DigitValue(s[Len(s)])

Y2023 == <<"2", "0", "2", "3">>
Y2020 == <<"2", "0", "2", "0">>

\* the `year` fields a form may carry: two years, a word, "²"
YearInputs == {Y2023, Y2020, <<"x">>, <<"sup2">>}

World == <<"World">>
Kenya == <<"Kenya">>
SouthSudan == <<"South", " ", "Sudan">>
South_Sudan == <<"South", "_", "Sudan">>

\* the names a `country` field may carry; the last is not a name of the dataset
CountryInputs == {World, Kenya, SouthSudan, South_Sudan}

RECURSIVE SeqsUpTo(_, _)
SeqsUpTo(S, n) ==
    IF n = 0 THEN {<<>>}
    ELSE LET shorter == SeqsUpTo(S, n - 1)
         IN shorter \cup {Append(s, x) : s \in {t \in shorter : Len(t) = n - 1}, x \in S}

\* [f(s[i]) for i] and [s[i] for i if Test(s[i])] of the comprehensions
SelectYears(s) == SelectSeq(s, IsDigit)

-----------------------------------------------------------------------------
(* Module initialisation, lines 15-31 and 297-300 *)

\* the test `KEY_JSON is None` in place of `not KEY_JSON`
KeyMissingOnlyNone(k) == k = None

\* `not KEY_JSON`: the variable is unset (None) or the empty string
KeyMissing(k) == k = None \/ k = ""

\* lines 16-18
LoadKey ==
    /\ pc = "env"
    /\ pc' = IF KeyMissing(env) THEN "failed" ELSE "keyfile"
    /\ UNCHANGED <<env, keyFile, eeReady, all_countries, routes, request, response, calls, charts>>

\* lines 20-22
WriteKeyFile ==
    /\ pc = "keyfile"
    /\ keyFile' = env
    /\ pc' = "initialize"
    /\ UNCHANGED <<env, eeReady, all_countries, routes, request, response, calls, charts>>

\* lines 24-25; the remote service may refuse the credentials
Initialize ==
    /\ pc = "initialize"
    /\ \E ok \in BOOLEAN :
          /\ eeReady' = ok
          /\ pc' = IF ok THEN "countries" ELSE "failed"
    /\ UNCHANGED <<env, keyFile, all_countries, routes, request, response, calls, charts>>

\* lines 30-31; getInfo may fail
FetchCountries ==
    /\ pc = "countries"
    /\ \E ok \in BOOLEAN :
          /\ all_countries' = IF ok THEN Some(<<World, Kenya, SouthSudan>>) ELSE Nothing
          /\ pc' = IF ok THEN "app" ELSE "failed"
    /\ UNCHANGED <<env, keyFile, eeReady, routes, request, response, calls, charts>>

\* lines 297-300
CreateApp ==
    /\ pc = "app"
    /\ routes' = {"/"}
    /\ pc' = "serving"
    /\ UNCHANGED <<env, keyFile, eeReady, all_countries, request, response, calls, charts>>

-----------------------------------------------------------------------------
(* Rasters *)

\* What the remote collections hold at a pixel: MODIS NDVI of the year and of
\* the year before (scaled by 10000), Sentinel-2 NDVI of the same two years
\* (in thousandths).  A raster computed from them is a function of the pixel.
PixelInputs ==
    [current : {6000, 6150, 6151, 6200}, previous : {6100},
     s_current : {400, 401}, s_previous : {300}]

-----------------------------------------------------------------------------
(* get_ndvi_and_bloom_map, lines 36-179 *)

\* names bound at module level when a request runs (lines 1-31, 36, 184, 238, 297, 300)
ModuleNames ==
    {"os", "ee", "tempfile", "folium", "Fullscreen", "Flask", "render_template", "request",
     "matplotlib", "plt", "datetime", "SERVICE_ACCOUNT", "KEY_JSON", "f", "KEY_FILE",
     "credentials", "countries_fc", "all_countries", "get_ndvi_and_bloom_map",
     "generate_ndvi_timeseries", "generate_bloom_timeseries", "app", "index"}

\* names local to get_ndvi_and_bloom_map that are bound when line 70 runs
MapLocalsAtLine70 ==
    {"country_name", "selected_years", "show_ndvi", "show_bloom", "show_sentinel",
     "proj_scale", "zoom_start", "center", "use_reduce_resolution", "last_year",
     "country_geom", "country_fc", "ndvi_collection", "ndvi_prev_collection",
     "ndvi_current", "ndvi_prev"}

\* the name line 70 passes to clip()
ClipArgumentLine70 == "country_geometry"

\* a name lookup raises NameError unless the name is local or global
NameBound(name, locals) == name \in locals \cup ModuleNames

\* the exception classes met here; all derive from Exception
ExceptionClasses == {"ValueError", "NameError", "EEException", "IndexError", "TypeError"}

\* `except ee.EEException` in place of `except Exception`
CatchesOnlyEEException(exc) == exc = "EEException"

\* `except Exception`, lines 178, 231, 290, 315
CatchesException(exc) == exc \in ExceptionClasses

\* the remote steps of the map build, in the order the code reaches them
MapSteps == <<"geometry", "raster", "tiles", "bounds", "render">>
MapFailures == {"none"} \cup {MapSteps[i] : i \in DOMAIN MapSteps}

\* line 53: None for "World"; the geometry of the named country otherwise
CountryGeom(country_name) == IF country_name = World THEN Nothing ELSE Some(country_name)

\* line 64: the NDVI of the year
NdviCurrent(px) == Some(px.current)

\* lines 70-78: the MODIS difference of a pixel and its mask; a masked pixel is Nothing
ModisBloomThreshold == 50
ModisBloomDiff(px) == px.current - px.previous
ModisBloomMask(px) ==
    IF ModisBloomDiff(px) > ModisBloomThreshold THEN Some(ModisBloomDiff(px)) ELSE Nothing

\* lines 101-107: Sentinel-2 NDVI in thousandths; the threshold 0.1 is 100
SentinelBloomThreshold == 100
SentinelBloomDiff(px) == px.s_current - px.s_previous
SentinelBloomMask(px) ==
    IF SentinelBloomDiff(px) > SentinelBloomThreshold THEN Some(SentinelBloomDiff(px)) ELSE Nothing

\* line 110: the MODIS bloom where the Sentinel bloom is unmasked
OverlapBloom(px) == IF SentinelBloomMask(px) = Nothing THEN Nothing ELSE ModisBloomMask(px)

BaseLayer ==
    [name |-> <<"CartoDB", " ", "Positron", " ", "No", " ", "Labels">>, overlay |-> FALSE,
     clip |-> Nothing, color |-> Nothing, value |-> Nothing]

\* lines 117-176: the layers of the map, in the order they are added
MapLayers(country_name, show_ndvi, show_bloom, show_sentinel) ==
    LET country_geom == CountryGeom(country_name)
    IN  <<BaseLayer>>
        \o (IF show_ndvi
            THEN <<[name |-> <<"NDVI">>, overlay |-> TRUE, clip |-> country_geom,
                    color |-> Nothing, value |-> Some([px \in PixelInputs |-> NdviCurrent(px)])]>>
            ELSE <<>>)
        \o (IF show_bloom
            THEN <<[name |-> <<"MODIS", " ", "Bloom">>, overlay |-> TRUE, clip |-> country_geom,
                    color |-> Nothing, value |-> Some([px \in PixelInputs |-> ModisBloomMask(px)])]>>
            ELSE <<>>)
        \o (IF show_sentinel
            THEN <<[name |-> <<"Sentinel", " ", "Bloom">>, overlay |-> TRUE, clip |-> country_geom,
                    color |-> Nothing, value |-> Some([px \in PixelInputs |-> OverlapBloom(px)])]>>
            ELSE <<>>)
        \o (IF country_name # World /\ country_geom # Nothing
            THEN <<[name |-> country_name \o <<" ", "Border">>, overlay |-> TRUE,
                    clip |-> country_geom, color |-> Some(<<"red">>), value |-> Nothing]>>
            ELSE <<>>)

NoMap == [layers |-> <<>>, fit |-> Nothing]

\* lines 47-176, the try body: the exception it ends with ("none": it returns),
\* the years it settled on before that, the MODIS bloom raster if line 78 built
\* it, and the map it rendered
MapBody(country_name, selected_years, show_ndvi, show_bloom, show_sentinel, fail) ==
    LET digits == SelectYears(selected_years)
        parsed == [i \in 1..Len(digits) |-> IntOf(digits[i])]
        years == IF parsed = <<>> THEN <<2023>> ELSE parsed
        last_year == years[Len(years)]
        country_geom == CountryGeom(country_name)
        seen == [selected_years |-> Some(years), last_year |-> Some(last_year),
                 modis_bloom_mask |-> Nothing, m |-> NoMap]
        built == [seen EXCEPT !.modis_bloom_mask = Some([px \in PixelInputs |-> ModisBloomMask(px)])]
        getMapIdCalled == show_ndvi \/ show_bloom \/ show_sentinel \/ country_geom # Nothing
    IN  IF \E i \in 1..Len(digits) : ~IntParses(digits[i])
        THEN [exc |-> "ValueError", selected_years |-> Nothing, last_year |-> Nothing,
              modis_bloom_mask |-> Nothing, m |-> NoMap]
        ELSE IF fail = "geometry" THEN [exc |-> "EEException"] @@ seen
        ELSE IF fail = "raster" THEN [exc |-> "EEException"] @@ seen
        ELSE IF ~NameBound(ClipArgumentLine70, MapLocalsAtLine70) THEN [exc |-> "NameError"] @@ seen
        ELSE IF fail = "tiles" /\ getMapIdCalled THEN [exc |-> "EEException"] @@ built
        ELSE IF fail = "bounds" /\ country_geom # Nothing THEN [exc |-> "IndexError"] @@ built
        ELSE IF fail = "render" THEN [exc |-> "TypeError"] @@ built
        ELSE [exc |-> "none"] @@
             [built EXCEPT !.m = [layers |-> MapLayers(country_name, show_ndvi, show_bloom,
                                                       show_sentinel),
                                  fit |-> country_geom]]

\* line 176: the rendered map
MapMarkup(m) == [kind |-> "map", country |-> Nothing, exc |-> "none", m |-> m]

\* lines 179, 316: "<h3>Error generating map[ for {country_name}]: {e}</h3>"
ErrorMarkup(country, exc) == [kind |-> "error", country |-> country, exc |-> exc, m |-> NoMap]

\* lines 36-179: the call as its caller sees it.  raised is "none" when the call
\* returns; markup is then the rendered map or the inline error message
GetNdviAndBloomMap(country_name, selected_years, show_ndvi, show_bloom, show_sentinel, fail) ==
    LET b == MapBody(country_name, selected_years, show_ndvi, show_bloom, show_sentinel, fail)
        obs == [selected_years |-> b.selected_years, last_year |-> b.last_year,
                modis_bloom_mask |-> b.modis_bloom_mask]
    IN  IF b.exc = "none"
        THEN [raised |-> "none", markup |-> Some(MapMarkup(b.m))] @@ obs
        ELSE IF CatchesException(b.exc)
        THEN [raised |-> "none", markup |-> Some(ErrorMarkup(Some(country_name), b.exc))] @@ obs
        ELSE [raised |-> b.exc, markup |-> Nothing] @@ obs

-----------------------------------------------------------------------------
(* generate_ndvi_timeseries and generate_bloom_timeseries, lines 184-292 *)

\* What the remote collection holds for one 16-day bucket of the region: the
\* regional mean of NDVI and of the difference to the previous 16 days, raw
\* (scaled by 10000), each Nothing when no pixel of the region is valid.
BucketInputs ==
    {[NDVI |-> Nothing, Bloom |-> Nothing],
     [NDVI |-> Some(4321), Bloom |-> Some(-120)]}

\* the buckets of a year, in the order of system:time_start (lines 196, 250)
BucketSeqs == SeqsUpTo(BucketInputs, MaxBuckets)

\* lines 210, 270: ee.Filter.notNull keeps the buckets whose property is set;
\* a kept feature carries its date, here the position of its bucket
NotNullFeatures(buckets, prop) ==
    LET dated == [i \in 1..Len(buckets) |-> [date |-> i, value |-> buckets[i][prop]]]
        HasValue(f) == f.value # Nothing
    IN  SelectSeq(dated, HasValue)

\* lines 212, 272: raw / 10000.0, kept as the fraction <<raw, 10000>>
Scaled(raw) == <<raw, 10000>>

\* lines 211-215, 271-275: the points handed to plt.plot and the segments of
\* the line, which joins each point to the next of the sequence and breaks at a
\* point whose value is None
PlotOf(points) ==
    [points |-> points,
     segments |-> {<<points[k].date, points[k + 1].date>> : k \in
                      {j \in 1..(Len(points) - 1) :
                          points[j].value # Nothing /\ points[j + 1].value # Nothing}}]

\* the filename without its year
ChartFilenameNoYear(metric, country_name, year) ==
    Replace(<<metric, "_", "timeseries", "_">> \o country_name \o <<".png">>, " ", "_")

\* lines 225, 284: f"{metric}_timeseries_{country_name}_{year}.png".replace(" ", "_")
ChartFilename(metric, country_name, year) ==
    Replace(<<metric, "_", "timeseries", "_">> \o country_name \o <<"_">> \o year \o <<".png">>,
            " ", "_")

\* lines 229, 288
ChartUrl(filename) == <<"/static/charts/">> \o filename

NoChart == [exc |-> "none", url |-> Nothing, file |-> Nothing]

\* lines 185-229, the try body
NdviBody(country_name, year, buckets, fail) ==
    LET features == NotNullFeatures(buckets, "NDVI")
        ndvi_values == [k \in 1..Len(features) |->
                           [date |-> features[k].date, value |-> Some(Scaled(features[k].value[1]))]]
        filename == ChartFilename("ndvi", country_name, year)
    IN  IF fail THEN [NoChart EXCEPT !.exc = "EEException"]
        ELSE [exc |-> "none", url |-> Some(ChartUrl(filename)),
              file |-> Some([name |-> filename, plot |-> PlotOf(ndvi_values)])]

\* lines 239-288, the try body; line 272 leaves a None value as None
BloomBody(country_name, year, buckets, fail) ==
    LET features == NotNullFeatures(buckets, "Bloom")
        bloom_values == [k \in 1..Len(features) |->
                            [date |-> features[k].date,
                             value |-> IF features[k].value # Nothing
                                       THEN Some(Scaled(features[k].value[1])) ELSE Nothing]]
        filename == ChartFilename("bloom", country_name, year)
    IN  IF fail THEN [NoChart EXCEPT !.exc = "EEException"]
        ELSE [exc |-> "none", url |-> Some(ChartUrl(filename)),
              file |-> Some([name |-> filename, plot |-> PlotOf(bloom_values)])]

\* the generator without its try/except
Uncontained(body) == [raised |-> body.exc, url |-> body.url, file |-> body.file]

\* lines 231-233, 290-292: a caught exception is printed and None is returned
Contained(body) ==
    IF body.exc = "none" THEN [raised |-> "none", url |-> body.url, file |-> body.file]
    ELSE IF CatchesException(body.exc) THEN [raised |-> "none", url |-> Nothing, file |-> Nothing]
    ELSE [raised |-> body.exc, url |-> Nothing, file |-> Nothing]

\* lines 184-233
GenerateNdviTimeseries(country_name, year, buckets, fail) ==
    Contained(NdviBody(country_name, year, buckets, fail))

\* lines 238-292
GenerateBloomTimeseries(country_name, year, buckets, fail) ==
    Contained(BloomBody(country_name, year, buckets, fail))

-----------------------------------------------------------------------------
(* index, lines 299-333 *)

FormFlags == {"show_ndvi", "show_bloom", "show_bloom_graph"}

NoCalls == [map |-> Nothing, ndvi |-> Nothing, bloom |-> Nothing]

\* plt.savefig on a path of static/charts: a file of that name is replaced.
\* An entry of the directory keeps the (metric, country, year) of every call that wrote it.
WriteChart(dir, written, triple) ==
    IF written.file = Nothing THEN dir
    ELSE LET file == written.file[1]
             before == {f \in dir : f.name = file.name}
         IN  (dir \ before) \cup
             {[name |-> file.name, writers |-> UNION {f.writers : f \in before} \cup {triple}]}

\* a call of a chart generator as recorded: its arguments and what it returned
ChartCall(country_name, year, buckets, fail, out) ==
    Some([country_name |-> country_name, year |-> year, buckets |-> buckets, fail |-> fail,
          out |-> out])

NotCalled == [raised |-> "none", url |-> Nothing, file |-> Nothing]

\* lines 313-333, given what the three builders returned: the template
\* context (or the exception that leaves the handler), the calls made, the
\* files written
IndexResult(selected_country, selected_years, flags, remote, map, ts, bts) ==
    LET show_ndvi == "show_ndvi" \in flags
        show_bloom == "show_bloom" \in flags
        show_bloom_graph == "show_bloom_graph" \in flags
        year == selected_years[1]
        mapCall == Some([country_name |-> selected_country, selected_years |-> selected_years,
                         show_ndvi |-> show_ndvi, show_bloom |-> show_bloom,
                         show_sentinel |-> TRUE, fail |-> remote.mapFail, out |-> map])
        ndvi_map == IF map.raised = "none" THEN map.markup
                    ELSE Some(ErrorMarkup(Nothing, map.raised))
        callBloom == show_bloom_graph /\ selected_years # <<>>
        ndviCall == ChartCall(selected_country, year, remote.buckets, remote.ndviFail, ts)
        bloomCall == ChartCall(selected_country, year, remote.buckets, remote.bloomFail, bts)
        ndviTriple == [metric |-> "ndvi", country_name |-> selected_country, year |-> year]
        bloomTriple == [metric |-> "bloom", country_name |-> selected_country, year |-> year]
        context == [map |-> ndvi_map, countries |-> all_countries,
                    selected_country |-> selected_country, selected_years |-> selected_years,
                    years |-> 2005..2023, show_ndvi |-> show_ndvi, show_bloom |-> show_bloom,
                    timeseries_url |-> ts.url, show_bloom_graph |-> show_bloom_graph,
                    bloom_timeseries_url |-> IF callBloom THEN bts.url ELSE Nothing]
        Raise(exc) == [status |-> 500, exc |-> exc, context |-> Nothing]
    IN  IF map.raised # "none" /\ ~CatchesException(map.raised)
        THEN [response |-> Raise(map.raised), calls |-> [NoCalls EXCEPT !.map = mapCall],
              charts |-> {}]
        ELSE IF ts.raised # "none"
        THEN [response |-> Raise(ts.raised),
              calls |-> [NoCalls EXCEPT !.map = mapCall, !.ndvi = ndviCall],
              charts |-> {}]
        ELSE IF callBloom /\ bts.raised # "none"
        THEN [response |-> Raise(bts.raised),
              calls |-> [map |-> mapCall, ndvi |-> ndviCall, bloom |-> bloomCall],
              charts |-> WriteChart({}, ts, ndviTriple)]
        ELSE [response |-> [status |-> 200, exc |-> "none", context |-> Some(context)],
              calls |-> [map |-> mapCall, ndvi |-> ndviCall,
                         bloom |-> IF callBloom THEN bloomCall ELSE Nothing],
              charts |-> WriteChart(WriteChart({}, ts, ndviTriple),
                                    IF callBloom THEN bts ELSE NotCalled, bloomTriple)]

\* lines 300-333 for the form `form` and the remote answers `remote`.  The
\* year filter of lines 307-309 never leaves selected_years empty, so the
\* NDVI chart is always asked for (line 318).
IndexHandler(form, remote) ==
    LET selected_country == IF form.country = <<>> THEN World ELSE form.country[1]
        digits == SelectYears(form.year)
    IN  CHOOSE r \in
            {IndexResult(selected_country, selected_years, form.flags, remote, map, ts, bts) :
                selected_years \in {IF digits = <<>> THEN <<Y2023>> ELSE digits},
                map \in {GetNdviAndBloomMap(
                            selected_country, IF digits = <<>> THEN <<Y2023>> ELSE digits,
                            "show_ndvi" \in form.flags, "show_bloom" \in form.flags,
                            TRUE, remote.mapFail)},
                ts \in {GenerateNdviTimeseries(
                            selected_country, (IF digits = <<>> THEN <<Y2023>> ELSE digits)[1],
                            remote.buckets, remote.ndviFail)},
                bts \in {GenerateBloomTimeseries(
                            selected_country, (IF digits = <<>> THEN <<Y2023>> ELSE digits)[1],
                            remote.buckets, remote.bloomFail)}} : TRUE

\* the `country` fields a form may carry: none, or one name
CountryFields == SeqsUpTo({World, Kenya, SouthSudan}, 1)

\* Flask accepts a request for "/" and its form
Accept ==
    /\ pc = "serving"
    /\ "/" \in routes
    /\ request = Nothing
    /\ \E country \in CountryFields, year \in SeqsUpTo(YearInputs, MaxYears),
          flags \in SUBSET FormFlags :
          request' = Some([country |-> country, year |-> year, flags |-> flags])
    /\ UNCHANGED <<pc, env, keyFile, eeReady, all_countries, routes, response, calls, charts>>

\* index runs on the accepted request; the remote service fails at one step of
\* the map build or at none, fails or answers each chart query, and holds
\* some buckets for the year
Index ==
    /\ pc = "serving"
    /\ request # Nothing
    /\ response = Nothing
    /\ \E mapFail \in MapFailures, ndviFail \in BOOLEAN, bloomFail \in BOOLEAN,
          buckets \in BucketSeqs :
          \E r \in {IndexHandler(request[1],
                                  [mapFail |-> mapFail, ndviFail |-> ndviFail,
                                   bloomFail |-> bloomFail, buckets |-> buckets])} :
              /\ response' = Some(r.response)
              /\ calls' = r.calls
              /\ charts' = r.charts
    /\ UNCHANGED <<pc, env, keyFile, eeReady, all_countries, routes, request>>

\* the response is sent; what the request built is discarded, and the files
\* it wrote are no longer followed (no later request reads them)
Send ==
    /\ pc = "serving"
    /\ response # Nothing
    /\ request' = Nothing
    /\ response' = Nothing
    /\ calls' = NoCalls
    /\ charts' = {}
    /\ UNCHANGED <<pc, env, keyFile, eeReady, all_countries, routes>>

Init ==
    /\ pc = "env"
    /\ env \in {None, "", "key"}
    /\ keyFile = None
    /\ eeReady = FALSE
    /\ all_countries = Nothing
    /\ routes = {}
    /\ request = Nothing
    /\ response = Nothing
    /\ calls = NoCalls
    /\ charts = {}

Next ==
    \/ LoadKey
    \/ WriteKeyFile
    \/ Initialize
    \/ FetchCountries
    \/ CreateApp
    \/ Accept
    \/ Index
    \/ Send

Spec == Init /\ [][Next]_vars

-----------------------------------------------------------------------------
(* get_ndvi_and_bloom_map called on its own, with every argument free *)

Started ==
    /\ pc = "serving"
    /\ env = "key"
    /\ keyFile = "key"
    /\ eeReady = TRUE
    /\ all_countries = Some(<<World, Kenya, SouthSudan>>)
    /\ routes = {"/"}
    /\ response = Nothing
    /\ calls = NoCalls
    /\ charts = {}

InitMap ==
    /\ Started
    /\ request \in {Some([country_name |-> c, selected_years |-> ys, show_ndvi |-> n,
                          show_bloom |-> b, show_sentinel |-> s, fail |-> fail]) :
                       c \in CountryInputs, ys \in SeqsUpTo(YearInputs, MaxYears),
                       n \in BOOLEAN, b \in BOOLEAN, s \in BOOLEAN, fail \in MapFailures}

CallMap ==
    /\ request # Nothing
    /\ calls.map = Nothing
    /\ LET a == request[1]
           out == GetNdviAndBloomMap(a.country_name, a.selected_years, a.show_ndvi,
                                     a.show_bloom, a.show_sentinel, a.fail)
       IN  calls' = [NoCalls EXCEPT !.map = Some([out |-> out] @@ a)]
    /\ UNCHANGED <<pc, env, keyFile, eeReady, all_countries, routes, request, response, charts>>

NextMap == CallMap

SpecMap == InitMap /\ [][NextMap]_vars

-----------------------------------------------------------------------------
(* The chart generators called on their own, by MaxCalls different          *)
(* (metric, country, year) at most; the state is the directory they fill   *)

\* the years index can pass: the fields that pass isdigit()
ChartYears == {y \in YearInputs : IsDigit(y)}

InitCharts ==
    /\ Started
    /\ request = Nothing

CallsMade == Cardinality(UNION {f.writers : f \in charts})

CallNdviTimeseries ==
    /\ CallsMade < MaxCalls
    /\ \E c \in CountryInputs, y \in ChartYears, buckets \in BucketSeqs, fail \in BOOLEAN :
          \E out \in {GenerateNdviTimeseries(c, y, buckets, fail)} :
              charts' = WriteChart(charts, out, [metric |-> "ndvi", country_name |-> c, year |-> y])
    /\ UNCHANGED <<pc, env, keyFile, eeReady, all_countries, routes, request, response, calls>>

CallBloomTimeseries ==
    /\ CallsMade < MaxCalls
    /\ \E c \in CountryInputs, y \in ChartYears, buckets \in BucketSeqs, fail \in BOOLEAN :
          \E out \in {GenerateBloomTimeseries(c, y, buckets, fail)} :
              charts' = WriteChart(charts, out, [metric |-> "bloom", country_name |-> c, year |-> y])
    /\ UNCHANGED <<pc, env, keyFile, eeReady, all_countries, routes, request, response, calls>>

NextCharts == CallNdviTimeseries \/ CallBloomTimeseries

SpecCharts == InitCharts /\ [][NextCharts]_vars

-----------------------------------------------------------------------------
(* Claims *)

MapCalled == calls.map # Nothing
MapOut == calls.map[1].out
Served == response # Nothing
Form == request[1]
Context == response[1].context[1]
LayerNames(m) == [i \in 1..Len(m.layers) |-> m.layers[i].name]

\* C1: get_ndvi_and_bloom_map never raises to its caller: whatever the
\* arguments and whichever step of the build fails, it returns markup, which
\* is the rendered map or the inline error message naming the country.
C1_MapNeverRaises ==
    MapCalled =>
        /\ MapOut.raised = "none"
        /\ MapOut.markup # Nothing
        /\ \/ MapOut.markup[1].kind = "map"
           \/ /\ MapOut.markup[1].kind = "error"
              /\ MapOut.markup[1].country = Some(calls.map[1].country_name)

\* a call in which the geometry lookup failed and the error message came back
C1_Witness ==
    /\ MapCalled
    /\ calls.map[1].fail = "geometry"
    /\ calls.map[1].selected_years = <<Y2023>>
    /\ MapOut.raised = "none"
    /\ MapOut.markup # Nothing
    /\ MapOut.markup[1].kind = "error"

\* C2: a request with country "World", year ["2023"], show_ndvi set, show_bloom
\* not set and no remote failure gets a map made of the base layer and the
\* NDVI layer only.
C2_WorldNdviOnly ==
    (/\ Served
     /\ Form.country = <<World>>
     /\ Form.year = <<Y2023>>
     /\ "show_ndvi" \in Form.flags
     /\ "show_bloom" \notin Form.flags
     /\ calls.map[1].fail = "none")
    => /\ response[1].status = 200
       /\ Context.map[1].kind = "map"
       /\ LayerNames(Context.map[1].m) = <<BaseLayer.name, <<"NDVI">>>>

\* C3: a request naming a country other than "World" with show_bloom set and
\* no remote failure gets a map with a bloom layer clipped to the country, a
\* red border layer of the country, and the viewport fitted to the country.
C3_CountryBloomAndBorder ==
    (/\ Served
     /\ Form.country # <<>>
     /\ Form.country # <<World>>
     /\ Form.year = <<Y2023>>
     /\ "show_bloom" \in Form.flags
     /\ calls.map[1].fail = "none")
    => /\ response[1].status = 200
       /\ Context.map[1].kind = "map"
       /\ LET m == Context.map[1].m
              country == Form.country[1]
          IN  /\ \E i \in 1..Len(m.layers) :
                    /\ m.layers[i].name = <<"MODIS", " ", "Bloom">>
                    /\ m.layers[i].clip = Some(country)
              /\ \E i \in 1..Len(m.layers) :
                    /\ m.layers[i].name = country \o <<" ", "Border">>
                    /\ m.layers[i].color = Some(<<"red">>)
              /\ m.fit = Some(country)

\* C4: when nothing fails remotely, a pixel is kept in the MODIS bloom raster
\* exactly when current - previous is strictly greater than 50.
C4_StrictThreshold ==
    (/\ MapCalled
     /\ calls.map[1].selected_years = <<Y2023>>
     /\ calls.map[1].fail = "none")
    => \A px \in PixelInputs :
           LET kept == /\ MapOut.modis_bloom_mask # Nothing
                       /\ MapOut.modis_bloom_mask[1][px] # Nothing
           IN  kept <=> (px.current - px.previous > 50)

\* C5: whatever fails among the map and the two charts, index reaches
\* render_template; a failed map is an inline error, a failed chart is None,
\* and each result is what its own pipeline gives, whatever the others did.
C5_PipelinesIsolated ==
    Served =>
        /\ response[1].status = 200
        /\ response[1].context # Nothing
        /\ LET country == IF Form.country = <<>> THEN World ELSE Form.country[1]
               year == Context.selected_years[1]
               graph == "show_bloom_graph" \in Form.flags
           IN  /\ Context.map # Nothing
               /\ Context.map[1].kind \in {"map", "error"}
               /\ Context.map =
                     GetNdviAndBloomMap(country, Context.selected_years,
                                        "show_ndvi" \in Form.flags, "show_bloom" \in Form.flags,
                                        TRUE, calls.map[1].fail).markup
               /\ calls.map[1].fail \in {"geometry", "raster"} => Context.map[1].kind = "error"
               /\ calls.ndvi # Nothing
               /\ graph <=> calls.bloom # Nothing
               /\ Context.timeseries_url =
                     IF calls.ndvi[1].fail THEN Nothing
                     ELSE Some(<<"/static/charts/", "ndvi", "_", "timeseries", "_">>
                               \o Replace(country, " ", "_") \o <<"_">> \o year \o <<".png">>)
               /\ Context.bloom_timeseries_url =
                     IF ~graph \/ calls.bloom[1].fail THEN Nothing
                     ELSE Some(<<"/static/charts/", "bloom", "_", "timeseries", "_">>
                               \o Replace(country, " ", "_") \o <<"_">> \o year \o <<".png">>)

\* a page rendered with a failed map, a failed NDVI chart and a bloom chart
C5_Witness ==
    /\ Served
    /\ response[1].status = 200
    /\ calls.map[1].fail = "raster"
    /\ Context.map[1].kind = "error"
    /\ calls.ndvi[1].fail
    /\ Context.timeseries_url = Nothing
    /\ calls.bloom # Nothing
    /\ ~calls.bloom[1].fail
    /\ Context.bloom_timeseries_url # Nothing

\* a year field made of the decimal digits 0-9 only
DigitOnly(y) == y # <<>> /\ \A i \in 1..Len(y) : y[i] \in {"0", "2", "3"}

\* C6: the years index and get_ndvi_and_bloom_map use are the digit-only
\* fields in their submitted order, and [2023] when there is none; no other
\* field reaches the raster queries or the chart filenames.
C6_YearFallback ==
    Served =>
        LET valid == SelectSeq(Form.year, DigitOnly)
            expected == IF valid = <<>> THEN <<Y2023>> ELSE valid
        IN  /\ response[1].status = 200
            /\ Context.selected_years = expected
            /\ MapOut.selected_years = Some([i \in 1..Len(expected) |-> IntOf(expected[i])])
            /\ calls.ndvi # Nothing /\ DigitOnly(calls.ndvi[1].year)
            /\ calls.bloom # Nothing => DigitOnly(calls.bloom[1].year)

C8_NullBucketsRecorded ==
    (Served /\ calls.ndvi # Nothing /\ ~calls.ndvi[1].fail) =>
        LET out == calls.ndvi[1].out
            plot == out.file[1].plot
            buckets == calls.ndvi[1].buckets
        IN  /\ out.url # Nothing
            /\ Len(plot.points) = Len(buckets)
            /\ \A i \in 1..Len(plot.points) :
                  /\ plot.points[i].date = i
                  /\ buckets[i].NDVI = Nothing => plot.points[i].value = Nothing
            /\ \A seg \in plot.segments :
                  /\ seg[2] = seg[1] + 1
                  /\ buckets[seg[1]].NDVI # Nothing
                  /\ buckets[seg[2]].NDVI # Nothing

\* C9: with EE_KEY_JSON unset or empty, initialisation stops before the key
\* file, the remote session, the country list, the app and its route exist,
\* and no request is ever accepted or served.
C9_MissingKeyIsFatal ==
    (env = None \/ env = "") =>
        /\ pc \in {"env", "failed"}
        /\ keyFile = None
        /\ eeReady = FALSE
        /\ all_countries = Nothing
        /\ routes = {}
        /\ request = Nothing
        /\ response = Nothing

\* initialisation has stopped on an empty EE_KEY_JSON
C9_Witness == env = "" /\ pc = "failed" /\ keyFile = None /\ routes = {}

\* C10: the year of the map's current-period raster is the year index passes
\* to the two chart generators.
C10_SameYear ==
    (Served /\ MapCalled /\ MapOut.last_year # Nothing) =>
        /\ calls.ndvi # Nothing
        /\ IntParses(calls.ndvi[1].year)
        /\ IntOf(calls.ndvi[1].year) = MapOut.last_year[1]
        /\ calls.bloom # Nothing => IntOf(calls.bloom[1].year) = MapOut.last_year[1]

====
